---- MODULE Spec2Model ----
(***************************************************************************)
(* CapCut Mixing Tool: the marker-pair segment shuffler                    *)
(* (suffle_capcu_track.py), its direct caller (test_shuffle.py) and the    *)
(* batch front end (gui.py).                                               *)
(*                                                                         *)
(* A draft_content.json document is a tree; json.load builds one dict      *)
(* object per segment.  The in-memory document is therefore modelled as a  *)
(* heap of segment objects plus, per track, the array of references to     *)
(* them, so that "the same object" (is) and "an equal object" (==) are     *)
(* different things, as they are for list.index.                           *)
(***************************************************************************)
EXTENDS Integers, Sequences, FiniteSets, TLC

\* Bounds of the model.
MaxTime == 2
MaxSegs == 2
MaxMarkers == 4
MaxTracks == 2

Times == 0..MaxTime
Types == {"video", "audio"}

---------------------------------------------------------------------------
\* Python built-ins used by the code.

RECURSIVE InsertAsc(_, _)
InsertAsc(x, s) ==
    IF s = <<>> THEN <<x>>
    ELSE IF x < Head(s) THEN <<x>> \o s
    ELSE <<Head(s)>> \o InsertAsc(x, Tail(s))

\* sorted(xs)
RECURSIVE SortAsc(_)
SortAsc(xs) == IF xs = <<>> THEN <<>> ELSE InsertAsc(Head(xs), SortAsc(Tail(xs)))

Reverse(xs) == [i \in 1..Len(xs) |-> xs[Len(xs) + 1 - i]]

\* sorted(xs, reverse=True)
SortDesc(xs) == Reverse(SortAsc(xs))

\* The orders random.shuffle can leave a list of n elements in.
Perms(n) == {f \in [1..n -> 1..n] : \A i, j \in 1..n : f[i] = f[j] => i = j}

---------------------------------------------------------------------------
\* Documents: draft_content.json as a value (what is on disk).

EmptyDoc == [mark_items |-> <<>>, tracks |-> <<>>]

\* json.load: every segment of every track becomes an object of its own.
RECURSIVE LoadSegments(_)
LoadSegments(tracks) ==
    IF tracks = <<>> THEN <<>>
    ELSE Head(tracks).segments \o LoadSegments(Tail(tracks))

RECURSIVE LoadTracks(_, _)
LoadTracks(tracks, base) ==
    IF tracks = <<>> THEN <<>>
    ELSE <<[type |-> Head(tracks).type,
            segments |-> [i \in 1..Len(Head(tracks).segments) |-> base + i]]>>
         \o LoadTracks(Tail(tracks), base + Len(Head(tracks).segments))

LoadData(doc) == [mark_items |-> doc.mark_items, tracks |-> LoadTracks(doc.tracks, 0)]
LoadHeap(doc) == LoadSegments(doc.tracks)

\* json.dump: the tree is written by value, references followed.
Dump(data, objs) ==
    [mark_items |-> data.mark_items,
     tracks |-> [t \in 1..Len(data.tracks) |->
                   [type |-> data.tracks[t].type,
                    segments |-> [i \in 1..Len(data.tracks[t].segments) |->
                                    objs[data.tracks[t].segments[i]]]]]]

---------------------------------------------------------------------------
\* The file system: CapCut master folders holding project folders.

Folders == {"F1", "F2"}
Names == {<<"A">>, <<"b">>}
Paths == {<<f, n>> : f \in Folders, n \in Names}

NoFile == [kind |-> "absent", doc |-> EmptyDoc]
Garbage == [kind |-> "garbage", doc |-> EmptyDoc]
JsonFile(doc) == [kind |-> "json", doc |-> doc]

NoEntry == [kind |-> "none", draft |-> NoFile]
PlainFile == [kind |-> "file", draft |-> NoFile]
Dir(draft) == [kind |-> "dir", draft |-> draft]

VARIABLES
    disk,              \* path -> entry: what is stored under each master folder
    written,           \* the paths opened for writing since the last call began
    \* CapCutShuffleGUI
    project_folder,    \* self.project_folder ("" is None)
    all_projects,      \* self.all_projects, a dict in insertion order
    projects,          \* self.projects
    project_vars,      \* self.project_vars: the checkboxes
    search_var,        \* self.search_var
    \* process_projects
    selected_projects, proj_idx, processed_count, failed_projects, attempted,
    \* shuffle_segments_between_marker_pairs / _shuffle_in_draft_format
    pc, project_path, project_data, heap, markers, target_track, pair_idx, error,
    \* history of the call in progress
    loaded,            \* the document as json.load returned it
    passes             \* one record per window pass that collected segments

fs_vars == <<disk, written>>
gui_vars == <<project_folder, all_projects, projects, project_vars, search_var>>
batch_vars == <<selected_projects, proj_idx, processed_count, failed_projects, attempted>>
call_vars == <<project_path, project_data, heap, markers, target_track, pair_idx,
               error, loaded, passes>>
vars == <<fs_vars, gui_vars, batch_vars, pc, call_vars>>

---------------------------------------------------------------------------
\* _shuffle_in_draft_format, the pure parts.

\* markers = sorted([m['time_range']['start'] for m in mark_items], reverse=True)
MarkerTimes(mark_items) == SortDesc(mark_items)

\* EnoughMarkers with the comparison off by one (len(markers) < 1).
EnoughMarkers_OffByOne(ms) == Len(ms) >= 1

\* len(markers) < 2 raises
EnoughMarkers(ms) == Len(ms) >= 2

\* IsCandidate without the test of the track's type.
IsCandidate_AnyType(track) == track.segments # <<>>

\* video_tracks = [t for t in tracks if t.get('type') == 'video' and t.get('segments')]
IsCandidate(track) == track.type = "video" /\ track.segments # <<>>

RECURSIVE VideoTracksFrom(_, _)
VideoTracksFrom(tracks, t) ==
    IF t > Len(tracks) THEN <<>>
    ELSE (IF IsCandidate(tracks[t]) THEN <<t>> ELSE <<>>) \o VideoTracksFrom(tracks, t + 1)

VideoTracks(tracks) == VideoTracksFrom(tracks, 1)

\* max(video_tracks, key=lambda t: len(t.get('segments', []))): the first maximum
RECURSIVE MaxBySegments(_, _, _)
MaxBySegments(tracks, cands, best) ==
    IF cands = <<>> THEN best
    ELSE MaxBySegments(tracks, Tail(cands),
             IF Len(tracks[Head(cands)].segments) > Len(tracks[best].segments)
             THEN Head(cands) ELSE best)

SelectTrack(tracks) ==
    LET video_tracks == VideoTracks(tracks)
    IN MaxBySegments(tracks, Tail(video_tracks), Head(video_tracks))

\* InRange without the test of the segment's end.
InRange_StartOnly(seg, marker_start, marker_end) == seg.start >= marker_start

\* start >= marker_start and start + duration <= marker_end
InRange(seg, marker_start, marker_end) ==
    /\ seg.start >= marker_start
    /\ seg.start + seg.duration <= marker_end

\* segments_in_range = [seg for seg in segments if ...]
RECURSIVE SegmentsInRange(_, _, _, _)
SegmentsInRange(segments, objs, marker_start, marker_end) ==
    IF segments = <<>> THEN <<>>
    ELSE (IF InRange(objs[Head(segments)], marker_start, marker_end)
          THEN <<Head(segments)>> ELSE <<>>)
         \o SegmentsInRange(Tail(segments), objs, marker_start, marker_end)

\* segments.index(seg): the first slot holding seg itself or a dict equal to it
SameSegment(objs, a, b) == a = b \/ objs[a] = objs[b]

Index(segments, objs, seg) ==
    CHOOSE i \in 1..Len(segments) :
        /\ SameSegment(objs, segments[i], seg)
        /\ \A j \in 1..(i - 1) : ~SameSegment(objs, segments[j], seg)

\* segment_indices = [segments.index(seg) for seg in segments_in_range]
SegmentIndices(segments, objs, segments_in_range) ==
    [k \in 1..Len(segments_in_range) |-> Index(segments, objs, segments_in_range[k])]

\* for idx, seg in zip(sorted(segment_indices), segments_in_range): segments[idx] = seg
RECURSIVE Place(_, _, _)
Place(segments, idxs, segs) ==
    IF idxs = <<>> THEN segments
    ELSE Place([segments EXCEPT ![Head(idxs)] = Head(segs)], Tail(idxs), Tail(segs))

\* Retime writing the cursor into duration as well.
RECURSIVE Retime_WrongField(_, _, _)
Retime_WrongField(objs, segs, cursor) ==
    IF segs = <<>> THEN objs
    ELSE Retime_WrongField(
             [objs EXCEPT ![Head(segs)] = [@ EXCEPT !.start = cursor, !.duration = cursor]],
             Tail(segs), cursor + objs[Head(segs)].duration)

\* Retime with a cursor that never advances.
RECURSIVE Retime_NoAdvance(_, _, _)
Retime_NoAdvance(objs, segs, cursor) ==
    IF segs = <<>> THEN objs
    ELSE Retime_NoAdvance([objs EXCEPT ![Head(segs)].start = cursor], Tail(segs), cursor)

\* cursor = marker_start; for seg in segments_in_range: start = cursor; cursor += duration
RECURSIVE Retime(_, _, _)
Retime(objs, segs, cursor) ==
    IF segs = <<>> THEN objs
    ELSE Retime([objs EXCEPT ![Head(segs)].start = cursor], Tail(segs),
                cursor + objs[Head(segs)].duration)

\* ValidPair letting an equal-valued pair through.
ValidPair_OrEqual(marker_start, marker_end) == marker_start <= marker_end

\* if marker_start >= marker_end: continue
ValidPair(marker_start, marker_end) == marker_start < marker_end

\* The slots that hold the collected objects themselves, ascending.
RECURSIVE SlotsOf(_, _, _)
SlotsOf(segments, refs, i) ==
    IF i > Len(segments) THEN <<>>
    ELSE (IF \E k \in 1..Len(refs) : refs[k] = segments[i] THEN <<i>> ELSE <<>>)
         \o SlotsOf(segments, refs, i + 1)

---------------------------------------------------------------------------
\* The exceptions the code raises.

ErrNotFound == "draft_content.json not found in project folder"
ErrJson == "JSONDecodeError"
ErrMarkers == "Project must contain at least 2 markers"
ErrNoTracks == "Project has no tracks"
ErrNoVideo == "No video track with segments found"

NoData == [mark_items |-> <<>>, tracks |-> <<>>]

\* The locals of a call that has not begun.
CallReset ==
    /\ project_data' = NoData
    /\ heap' = <<>>
    /\ markers' = <<>>
    /\ target_track' = 0
    /\ pair_idx' = 0
    /\ error' = ""
    /\ loaded' = EmptyDoc
    /\ passes' = <<>>

\* os.path.exists(os.path.join(project_path, "draft_content.json"))
DraftExists(path) == disk[path].kind = "dir" /\ disk[path].draft.kind # "absent"

Raise(msg) ==
    /\ pc' = "raised"
    /\ error' = msg

---------------------------------------------------------------------------
\* shuffle_segments_between_marker_pairs(project_path)

\* STEP 1: the file is looked for, opened and parsed.
LoadDraft ==
    /\ pc = "call"
    /\ IF ~DraftExists(project_path) THEN
           /\ Raise(ErrNotFound)
           /\ UNCHANGED <<project_data, heap, loaded>>
       ELSE IF disk[project_path].draft.kind = "garbage" THEN
           /\ Raise(ErrJson)
           /\ UNCHANGED <<project_data, heap, loaded>>
       ELSE
           /\ project_data' = LoadData(disk[project_path].draft.doc)
           /\ heap' = LoadHeap(disk[project_path].draft.doc)
           /\ loaded' = disk[project_path].draft.doc
           /\ pc' = "shuffle"
           /\ UNCHANGED error
    /\ UNCHANGED <<fs_vars, gui_vars, batch_vars, project_path, markers, target_track,
                   pair_idx, passes>>

\* _shuffle_in_draft_format STEPS 1-2: extract the markers, validate, find the
\* video tracks and choose the target.
ChooseTarget ==
    /\ pc = "shuffle"
    /\ markers' = MarkerTimes(project_data.mark_items)
    /\ IF ~EnoughMarkers(markers') THEN
           Raise(ErrMarkers) /\ UNCHANGED target_track
       ELSE IF project_data.tracks = <<>> THEN
           Raise(ErrNoTracks) /\ UNCHANGED target_track
       ELSE IF VideoTracks(project_data.tracks) = <<>> THEN
           Raise(ErrNoVideo) /\ UNCHANGED target_track
       ELSE
           /\ target_track' = SelectTrack(project_data.tracks)
           /\ pc' = "pairs"
           /\ UNCHANGED error
    /\ UNCHANGED <<fs_vars, gui_vars, batch_vars, project_path, project_data, heap,
                   pair_idx, loaded, passes>>

\* _shuffle_in_draft_format STEPS 3-6: one iteration of the loop over marker pairs.
ProcessPair ==
    /\ pc = "pairs"
    /\ pair_idx < Len(markers) - 1
    /\ pair_idx' = pair_idx + 2
    /\ LET marker_start == markers[pair_idx + 2]
           marker_end == markers[pair_idx + 1]
           segments == project_data.tracks[target_track].segments
           found == SegmentsInRange(segments, heap, marker_start, marker_end)
       IN IF ~ValidPair(marker_start, marker_end) \/ found = <<>> THEN
              UNCHANGED <<project_data, heap, passes>>
          ELSE
              \E perm \in Perms(Len(found)) :
                 LET segments_in_range == [k \in 1..Len(found) |-> found[perm[k]]]
                     segment_indices == SegmentIndices(segments, heap, segments_in_range)
                     placed == Place(segments, SortAsc(segment_indices), segments_in_range)
                     retimed == Retime(heap, segments_in_range, marker_start)
                 IN /\ project_data' =
                           [project_data EXCEPT !.tracks[target_track].segments = placed]
                    /\ heap' = retimed
                    /\ passes' = Append(passes,
                           [pair |-> pair_idx \div 2,
                            window_start |-> marker_start,
                            window_end |-> marker_end,
                            collected |-> segments_in_range,
                            slots |-> SlotsOf(segments, found, 1),
                            placed |-> placed,
                            retimed |-> retimed])
    /\ UNCHANGED <<fs_vars, gui_vars, batch_vars, pc, project_path, markers,
                   target_track, error, loaded>>

\* STEP 3: _shuffle_in_draft_format returned; the document is written back.
StoreDraft ==
    /\ pc = "pairs"
    /\ pair_idx >= Len(markers) - 1
    /\ disk' = [disk EXCEPT ![project_path].draft = JsonFile(Dump(project_data, heap))]
    /\ written' = written \cup {project_path}
    /\ pc' = "returned"
    /\ UNCHANGED <<gui_vars, batch_vars, call_vars>>

---------------------------------------------------------------------------
\* test_shuffle.py: one call on one project folder.

TestPath == <<"F1", <<"A">>>>

test_shuffle ==
    /\ pc = "start"
    /\ IF disk[TestPath].kind = "none" THEN
           pc' = "exit" /\ UNCHANGED project_path
       ELSE
           pc' = "call" /\ project_path' = TestPath
    /\ UNCHANGED <<fs_vars, gui_vars, batch_vars, project_data, heap, markers,
                   target_track, pair_idx, error, loaded, passes>>

---------------------------------------------------------------------------
\* The documents the model is run on.

SeqsUpTo(S, n) == UNION {[1..k -> S] : k \in 0..n}

NonDecreasing(xs) == \A i \in 1..(Len(xs) - 1) : xs[i] <= xs[i + 1]

\* mark_items, in timeline order (the code sorts its own copy).
MarkLists == {m \in SeqsUpTo(Times, MaxMarkers) : NonDecreasing(m)}

\* target_timerange values inside the timeline 0..MaxTime.
Timings == {t \in [start : Times, duration : Times] : t.start + t.duration <= MaxTime}

\* Segments carry an id besides their timing; a document's ids are all different,
\* or all the same (segments that differ in nothing but their timing).
WithIds(S, unique) ==
    [i \in 1..Len(S) |->
        [id |-> IF unique THEN i ELSE 1, start |-> S[i].start, duration |-> S[i].duration]]

\* A document with one video track, of any timing.
RichDoc(m, S, unique) ==
    [mark_items |-> m, tracks |-> <<[type |-> "video", segments |-> WithIds(S, unique)]>>]

\* Documents with tracks of both types: a segment list cut into consecutive tracks.
TrackTimings == {[start |-> 0, duration |-> 1], [start |-> 1, duration |-> 1]}
TrackMarkLists == {<<0>>, <<0, MaxTime>>}

Cuts(n, len) == {c \in [0..n -> 0..len] : c[0] = 0 /\ c[n] = len /\
                                            \A t \in 1..n : c[t - 1] <= c[t]}

TrackDocs ==
    UNION {
      UNION {
        {[mark_items |-> m,
          tracks |-> [t \in 1..n |->
                        [type |-> types[t],
                         segments |-> SubSeq(WithIds(S, u), c[t - 1] + 1, c[t])]]] :
            m \in TrackMarkLists, types \in [1..n -> Types], c \in Cuts(n, Len(S)),
            u \in BOOLEAN} :
        S \in SeqsUpTo(TrackTimings, MaxSegs)} :
      n \in 1..MaxTracks}

\* The spec's selection example: segment counts [3, 7, 2], the last two video.
FixtureTrack(ty, n, first) ==
    [type |-> ty,
     segments |-> [i \in 1..n |-> [id |-> first + i, start |-> i - 1, duration |-> 1]]]

SelectionFixture ==
    [mark_items |-> <<0, 2>>,
     tracks |-> <<FixtureTrack("text", 3, 0), FixtureTrack("video", 7, 3),
                  FixtureTrack("video", 2, 10)>>]

\* The project folder test_shuffle.py is pointed at holds entry e.
TestDisk(e) == [p \in Paths |-> IF p = TestPath THEN e ELSE NoEntry]

\* test_shuffle.py is run on: no folder, a folder without a (readable) draft, a
\* document without tracks or with one video track (every marker list, every
\* timing), a document with tracks of both types, the selection example.
Init ==
    /\ \/ \E e \in {NoEntry, PlainFile, Dir(NoFile), Dir(Garbage)} : disk = TestDisk(e)
       \/ \E m \in MarkLists :
             disk = TestDisk(Dir(JsonFile([mark_items |-> m, tracks |-> <<>>])))
       \/ \E m \in MarkLists, S \in SeqsUpTo(Timings, MaxSegs), u \in BOOLEAN :
             disk = TestDisk(Dir(JsonFile(RichDoc(m, S, u))))
       \/ \E d \in TrackDocs \cup {SelectionFixture} : disk = TestDisk(Dir(JsonFile(d)))
    /\ written = {}
    /\ project_folder = ""
    /\ all_projects = <<>>
    /\ projects = <<>>
    /\ project_vars = <<>>
    /\ search_var = <<>>
    /\ selected_projects = <<>>
    /\ proj_idx = 0
    /\ processed_count = 0
    /\ failed_projects = <<>>
    /\ attempted = <<>>
    /\ pc = "start"
    /\ project_path = TestPath
    /\ project_data = NoData
    /\ heap = <<>>
    /\ markers = <<>>
    /\ target_track = 0
    /\ pair_idx = 0
    /\ error = ""
    /\ loaded = EmptyDoc
    /\ passes = <<>>

Next ==
    \/ test_shuffle
    \/ LoadDraft
    \/ ChooseTarget
    \/ ProcessPair
    \/ StoreDraft

Spec == Init /\ [][Next]_vars

---------------------------------------------------------------------------
\* gui.py: CapCutShuffleGUI.  Names are sequences of characters.

\* str.lower()
LowerChar(c) == IF c = "A" THEN "a" ELSE IF c = "B" THEN "b" ELSE c
Lower(name) == [i \in 1..Len(name) |-> LowerChar(name[i])]

\* query in name
Contains(query, name) ==
    \E i \in 0..(Len(name) - Len(query)) : SubSeq(name, i + 1, i + Len(query)) = query

\* The order sorted() puts paths of one folder in: by name, by character code.
Ord(c) == CASE c = "A" -> 65 [] c = "B" -> 66 [] c = "a" -> 97 [] c = "b" -> 98

RECURSIVE NameLess(_, _)
NameLess(a, b) ==
    IF b = <<>> THEN FALSE
    ELSE IF a = <<>> THEN TRUE
    ELSE IF Head(a) = Head(b) THEN NameLess(Tail(a), Tail(b))
    ELSE Ord(Head(a)) < Ord(Head(b))

\* sorted(folder_path.iterdir()): the names stored under folder, ascending
RECURSIVE SortedNames(_)
SortedNames(names) ==
    IF names = {} THEN <<>>
    ELSE LET first == CHOOSE n \in names : \A o \in names \ {n} : NameLess(n, o)
         IN <<first>> \o SortedNames(names \ {first})

Listing(folder) == SortedNames({n \in Names : disk[<<folder, n>>].kind # "none"})

\* d[key] = value on a dict: a known key keeps its place
DictSet(d, key, value) ==
    IF \E i \in 1..Len(d) : d[i].name = key
    THEN [i \in 1..Len(d) |-> IF d[i].name = key THEN [name |-> key, path |-> value] ELSE d[i]]
    ELSE Append(d, [name |-> key, path |-> value])

\* load_projects, the loop: every sub-folder holding draft_content.json is recorded
RECURSIVE ScanFolder(_, _, _)
ScanFolder(all, folder, items) ==
    IF items = <<>> THEN all
    ELSE ScanFolder(
             IF DraftExists(<<folder, Head(items)>>)
             THEN DictSet(all, Head(items), <<folder, Head(items)>>) ELSE all,
             folder, Tail(items))

\* filter_projects: self.projects, rebuilt from self.all_projects
RECURSIVE FilterProjects(_, _)
FilterProjects(all, search_query) ==
    IF all = <<>> THEN <<>>
    ELSE (IF Contains(search_query, Lower(Head(all).name)) THEN <<Head(all)>> ELSE <<>>)
         \o FilterProjects(Tail(all), search_query)

\* filter_projects: a fresh, unchecked BooleanVar per project shown
FreshVars(shown) == [i \in 1..Len(shown) |-> [name |-> shown[i].name, checked |-> FALSE]]

\* select_folder, and load_projects which it calls
select_folder ==
    /\ pc = "idle"
    /\ \E folder \in Folders \cup {""} :
          IF folder = "" THEN UNCHANGED gui_vars
          ELSE /\ project_folder' = folder
               /\ all_projects' = ScanFolder(all_projects, folder, Listing(folder))
               /\ projects' = IF all_projects' = <<>> THEN <<>>
                              ELSE FilterProjects(all_projects', Lower(search_var))
               /\ project_vars' = FreshVars(projects')
               /\ UNCHANGED search_var
    /\ UNCHANGED <<fs_vars, batch_vars, pc, call_vars>>

Searches == {<<>>, <<"A">>, <<"b">>}

\* The user edits the search box: the trace on search_var calls filter_projects.
search_changed ==
    /\ pc = "idle"
    /\ \E text \in Searches \ {search_var} :
          /\ search_var' = text
          /\ projects' = FilterProjects(all_projects, Lower(text))
          /\ project_vars' = FreshVars(projects')
    /\ UNCHANGED <<fs_vars, project_folder, all_projects, batch_vars, pc, call_vars>>

\* The user clicks a checkbox.
toggle_checkbox ==
    /\ pc = "idle"
    /\ \E i \in 1..Len(project_vars) :
          project_vars' = [project_vars EXCEPT ![i].checked = ~project_vars[i].checked]
    /\ UNCHANGED <<fs_vars, project_folder, all_projects, projects, search_var,
                   batch_vars, pc, call_vars>>

\* selected_projects = [name for name, var in self.project_vars.items() if var.get()]
RECURSIVE Selected(_)
Selected(boxes) ==
    IF boxes = <<>> THEN <<>>
    ELSE (IF Head(boxes).checked THEN <<Head(boxes).name>> ELSE <<>>) \o Selected(Tail(boxes))

\* self.projects[project_name]
PathOf(name) == (CHOOSE i \in 1..Len(projects) : projects[i].name = name)

\* process_projects, up to the loop
process_projects ==
    /\ pc = "idle"
    /\ IF Selected(project_vars) = <<>> THEN UNCHANGED <<batch_vars, pc>>
       ELSE /\ selected_projects' = Selected(project_vars)
            /\ proj_idx' = 1
            /\ processed_count' = 0
            /\ failed_projects' = <<>>
            /\ attempted' = <<>>
            /\ pc' = "batch"
    /\ UNCHANGED <<fs_vars, gui_vars, call_vars>>

\* The loop body begins: the next selected project is handed to the shuffler.
BatchCall ==
    /\ pc = "batch"
    /\ proj_idx <= Len(selected_projects)
    /\ attempted' = Append(attempted, selected_projects[proj_idx])
    /\ project_path' = projects[PathOf(selected_projects[proj_idx])].path
    /\ CallReset
    /\ written' = {}
    /\ pc' = "call"
    /\ UNCHANGED <<disk, gui_vars, selected_projects, proj_idx, processed_count,
                   failed_projects>>

\* The call returned: processed_count += 1
BatchReturn ==
    /\ pc = "returned"
    /\ processed_count' = processed_count + 1
    /\ proj_idx' = proj_idx + 1
    /\ pc' = "batch"
    /\ UNCHANGED <<fs_vars, gui_vars, selected_projects, failed_projects, attempted,
                   call_vars>>

\* AfterFailure leaving the loop at the first failure.
AfterFailure_Abort(idx, total) == total + 1

\* The loop after an except clause ran: on to the next project.
AfterFailure(idx, total) == idx + 1

\* except ValueError / except Exception: the failure is recorded
BatchExcept ==
    /\ pc = "raised"
    /\ failed_projects' = Append(failed_projects, <<selected_projects[proj_idx], error>>)
    /\ proj_idx' = AfterFailure(proj_idx, Len(selected_projects))
    /\ pc' = "batch"
    /\ UNCHANGED <<fs_vars, gui_vars, selected_projects, processed_count, attempted,
                   call_vars>>

\* The loop is over: the results are shown and the handler returns.
BatchDone ==
    /\ pc = "batch"
    /\ proj_idx > Len(selected_projects)
    /\ selected_projects' = <<>>
    /\ proj_idx' = 0
    /\ processed_count' = 0
    /\ failed_projects' = <<>>
    /\ attempted' = <<>>
    /\ written' = {}
    /\ CallReset
    /\ project_path' = TestPath
    /\ pc' = "idle"
    /\ UNCHANGED <<disk, gui_vars>>

\* The projects the front end is run on.
GuiOkDoc == [mark_items |-> <<0, 2>>, tracks |-> <<FixtureTrack("video", 2, 0)>>]
GuiBadDoc == [mark_items |-> <<0>>, tracks |-> <<FixtureTrack("video", 2, 0)>>]

GuiEntries == {NoEntry, PlainFile, Dir(NoFile), Dir(JsonFile(GuiOkDoc)),
               Dir(JsonFile(GuiBadDoc))}

InitGUI ==
    /\ disk \in [Paths -> GuiEntries]
    /\ written = {}
    /\ project_folder = ""
    /\ all_projects = <<>>
    /\ projects = <<>>
    /\ project_vars = <<>>
    /\ search_var = <<>>
    /\ selected_projects = <<>>
    /\ proj_idx = 0
    /\ processed_count = 0
    /\ failed_projects = <<>>
    /\ attempted = <<>>
    /\ pc = "idle"
    /\ project_path = TestPath
    /\ project_data = NoData
    /\ heap = <<>>
    /\ markers = <<>>
    /\ target_track = 0
    /\ pair_idx = 0
    /\ error = ""
    /\ loaded = EmptyDoc
    /\ passes = <<>>

NextGUI ==
    \/ select_folder
    \/ search_changed
    \/ toggle_checkbox
    \/ process_projects
    \/ BatchCall
    \/ BatchReturn
    \/ BatchExcept
    \/ BatchDone
    \/ LoadDraft
    \/ ChooseTarget
    \/ ProcessPair
    \/ StoreDraft

SpecGUI == InitGUI /\ [][NextGUI]_vars

---------------------------------------------------------------------------
\* Vocabulary of the properties.

Range(xs) == {xs[i] : i \in 1..Len(xs)}

\* The document of the call in progress as json.load returned it.
OrigData == LoadData(loaded)
OrigHeap == LoadHeap(loaded)

TargetChosen == target_track # 0
OrigSegments == OrigData.tracks[target_track].segments
CurSegments == project_data.tracks[target_track].segments

End(seg) == seg.start + seg.duration

\* One ends at or before the other starts.
Disjoint(a, b) == End(a) <= b.start \/ End(b) <= a.start

\* The windows of a marker list: (markers[2p+1], markers[2p]) with the first smaller.
Windows(mark_items) ==
    LET ms == SortDesc(mark_items)
    IN {w \in {<<ms[2 * p + 2], ms[2 * p + 1]>> : p \in 0..((Len(ms) \div 2) - 1)} :
          w[1] < w[2]}

Contained(seg, w) == seg.start >= w[1] /\ End(seg) <= w[2]

\* Whether any pass collected the object r.
Collected(r) == \E k \in 1..Len(passes) : r \in Range(passes[k].collected)

---------------------------------------------------------------------------
\* C1: every pass writes the collected segments back into exactly the slots they
\* occupied, each into one of them, so the target track's segment array stays a
\* permutation of the loaded one (the same length, every segment exactly once),
\* structurally equal segments included.
C1_SlotsPermuted ==
    TargetChosen =>
       /\ \A k \in 1..Len(passes) :
             /\ {i \in 1..Len(passes[k].placed) :
                    passes[k].placed[i] \in Range(passes[k].collected)}
                  = Range(passes[k].slots)
             /\ \A r \in Range(passes[k].collected) :
                    Cardinality({i \in 1..Len(passes[k].placed) :
                                    passes[k].placed[i] = r}) = 1
       /\ Len(CurSegments) = Len(OrigSegments)
       /\ \A r \in Range(OrigSegments) :
             Cardinality({i \in 1..Len(CurSegments) : CurSegments[i] = r}) = 1

\* C2: right after a pass that collected segments, the window's slots read in
\* ascending order hold a chain: the first start is window_start, every next start
\* is the previous start plus the previous duration.
C2_Contiguous ==
    \A k \in 1..Len(passes) :
       LET p == passes[k]
           at(j) == p.retimed[p.placed[p.slots[j]]]
       IN /\ at(1).start = p.window_start
          /\ \A j \in 1..(Len(p.slots) - 1) : at(j + 1).start = End(at(j))

\* C3: a segment of the target track contained in no valid window keeps its start
\* and its slot; the windows are those of the descending marker list taken two at a
\* time (a trailing marker makes none, an equal pair is skipped); and with no
\* segment in any window the whole document stays as loaded.
C3_OutsideUntouched ==
    TargetChosen =>
       LET outside(r) == \A w \in Windows(loaded.mark_items) : ~Contained(OrigHeap[r], w)
       IN /\ \A i \in 1..Len(OrigSegments) :
                outside(OrigSegments[i]) =>
                   /\ CurSegments[i] = OrigSegments[i]
                   /\ heap[OrigSegments[i]].start = OrigHeap[OrigSegments[i]].start
          /\ (\A r \in Range(OrigSegments) : outside(r)) =>
                /\ Dump(project_data, heap) = loaded
                /\ pc = "returned" => disk[project_path].draft.doc = loaded

C3_Witness ==
    /\ pc = "returned"
    /\ passes # <<>>
    /\ Len(markers) = 3
    /\ \E i \in 1..Len(OrigSegments) :
          /\ \A w \in Windows(loaded.mark_items) : ~Contained(OrigHeap[OrigSegments[i]], w)
          /\ \E w \in Windows(loaded.mark_items) :
                OrigHeap[OrigSegments[i]].start >= w[1]
                /\ OrigHeap[OrigSegments[i]].start < w[2]

\* C4: the shuffle changes the order of the target track's array and the starts of
\* collected segments, nothing else: every duration (and id) is as loaded, the
\* marker list is as loaded, every other track is as loaded, in memory and in the
\* file written back.
C4_FrameKept ==
    /\ Len(heap) = Len(OrigHeap)
    /\ \A r \in 1..Len(heap) :
          /\ heap[r].duration = OrigHeap[r].duration
          /\ heap[r].id = OrigHeap[r].id
          /\ ~Collected(r) => heap[r].start = OrigHeap[r].start
    /\ project_data.mark_items = loaded.mark_items
    /\ Len(project_data.tracks) = Len(loaded.tracks)
    /\ \A t \in 1..Len(project_data.tracks) :
          /\ project_data.tracks[t].type = loaded.tracks[t].type
          /\ t # target_track => Dump(project_data, heap).tracks[t] = loaded.tracks[t]
    /\ pc = "returned" =>
          LET doc == disk[project_path].draft.doc
          IN /\ doc.mark_items = loaded.mark_items
             /\ Len(doc.tracks) = Len(loaded.tracks)
             /\ \A t \in 1..Len(doc.tracks) :
                   /\ t # target_track => doc.tracks[t] = loaded.tracks[t]
                   /\ Len(doc.tracks[t].segments) = Len(loaded.tracks[t].segments)
                   /\ \A i \in 1..Len(doc.tracks[t].segments) :
                         doc.tracks[t].segments[i].duration
                           = OrigHeap[project_data.tracks[t].segments[i]].duration

C4_Witness ==
    /\ pc = "returned"
    /\ passes # <<>>
    /\ loaded.mark_items # SortDesc(loaded.mark_items)
    /\ \E t \in 1..Len(loaded.tracks) : t # target_track /\ loaded.tracks[t].segments # <<>>
    /\ \E r \in 1..Len(heap) : heap[r].start # OrigHeap[r].start

\* The three validation failures of _shuffle_in_draft_format, read off a document.
ValidationFails(doc) ==
    \/ Len(doc.mark_items) < 2
    \/ doc.tracks = <<>>
    \/ \A t \in 1..Len(doc.tracks) :
          doc.tracks[t].type # "video" \/ doc.tracks[t].segments = <<>>

\* C5: a document that fails validation (fewer than 2 markers, no tracks, no video
\* track with a segment) is rejected with the in-memory document as loaded, and the
\* file is written only by a call that got through the shuffle: never by one that
\* raised.
C5_FailureWritesNothing ==
    /\ pc = "raised" =>
          /\ project_path \notin written
          /\ Dump(project_data, heap) = loaded
    /\ project_path \in written => pc = "returned"
    /\ (pc \in {"pairs", "returned", "raised"} /\ ValidationFails(loaded)) =>
          /\ pc = "raised"
          /\ project_path \notin written
    /\ (pc = "raised" /\ error \in {ErrMarkers, ErrNoTracks, ErrNoVideo}) =>
          ValidationFails(loaded)

C5_Witness ==
    /\ pc = "raised"
    /\ error = ErrMarkers
    /\ Len(loaded.mark_items) = 1
    /\ ~(loaded.tracks = <<>>)
    /\ heap # <<>>

\* C6: the target track is a video track with segments whose segment count no other
\* such track exceeds and no earlier such track equals; a non-video track is never
\* the target, however many segments it has; only the target's array is reordered.
C6_TargetTrack ==
    TargetChosen =>
       LET tracks == loaded.tracks
           cand(t) == tracks[t].type = "video" /\ tracks[t].segments # <<>>
           count(t) == Len(tracks[t].segments)
       IN /\ cand(target_track)
          /\ \A t \in 1..Len(tracks) : cand(t) => count(t) <= count(target_track)
          /\ \A t \in 1..(target_track - 1) : cand(t) => count(t) < count(target_track)
          /\ \A t \in 1..Len(tracks) :
                t # target_track =>
                   project_data.tracks[t].segments = OrigData.tracks[t].segments

C6_Witness ==
    /\ loaded = SelectionFixture
    /\ pc = "returned"
    /\ target_track = 2
    /\ CurSegments # OrigSegments

\* C7: the batch attempts the selected projects one by one in selection order;
\* a failure is recorded with the project's name and its reason and the loop goes
\* on; at the end every selected project was attempted once and processed_count
\* plus the number of failures is the number of selected projects.
C7_BatchGoesOn ==
    pc = "batch" =>
       /\ attempted = SubSeq(selected_projects, 1, proj_idx - 1)
       /\ processed_count + Len(failed_projects) = proj_idx - 1
       /\ \A k \in 1..Len(failed_projects) :
             /\ failed_projects[k][1] \in Range(attempted)
             /\ failed_projects[k][2] # ""
       /\ \A j, k \in 1..Len(failed_projects) :
             failed_projects[j][1] = failed_projects[k][1] => j = k
       /\ proj_idx > Len(selected_projects) =>
             /\ attempted = selected_projects
             /\ processed_count + Len(failed_projects) = Len(selected_projects)

C7_Witness ==
    /\ pc = "batch"
    /\ proj_idx > Len(selected_projects)
    /\ Len(selected_projects) = 2
    /\ processed_count = 1
    /\ Len(failed_projects) = 1
    /\ failed_projects[1][1] = selected_projects[1]

\* The passes that collected the object r.
PassesOf(r) == {k \in 1..Len(passes) : r \in Range(passes[k].collected)}

\* r still has the start and the slots pass k left it with.
Established(r, k) ==
    /\ heap[r].start = passes[k].retimed[r].start
    /\ \A i \in 1..Len(CurSegments) : (CurSegments[i] = r) <=> (passes[k].placed[i] = r)

\* C8 as stated: no segment, zero-duration ones included, is collected by more than
\* one window's pass, whatever the marker list, and what a pass established (start,
\* slot) no later pass changes.
C8_OneWindowPerSegment ==
    \A r \in 1..Len(heap) :
       /\ Cardinality(PassesOf(r)) <= 1
       /\ \A k \in PassesOf(r) : Established(r, k)

\* C8, amended: windows are passed in pair order, and no segment of positive
\* duration is collected by more than one window's pass, whatever the marker list;
\* the start and the slots a pass gave such a segment no later pass changes.
C8_OneWindowPerPositiveSegment ==
    /\ \A j, k \in 1..Len(passes) : j < k => passes[j].pair < passes[k].pair
    /\ \A k \in 1..Len(passes) : passes[k].pair < (pair_idx \div 2)
    /\ \A r \in 1..Len(heap) :
          heap[r].duration > 0 =>
             /\ Cardinality(PassesOf(r)) <= 1
             /\ \A k \in PassesOf(r) : Established(r, k)

C8_Witness ==
    /\ pc = "returned"
    /\ Len(passes) = 2
    /\ markers[2] = markers[3]
    /\ \E r \in 1..Len(heap) : heap[r].duration > 0 /\ PassesOf(r) = {1}
    /\ \E r \in 1..Len(heap) : heap[r].duration = 0 /\ PassesOf(r) = {1, 2}

\* C9: once a master folder is selected, the projects offered are exactly its
\* immediate sub-folders that hold draft_content.json and match the search text,
\* whatever folders were selected before.
C9_OfferedProjects ==
    (pc = "idle" /\ project_folder # "") =>
       /\ Range(projects) =
             {[name |-> n, path |-> <<project_folder, n>>] :
                 n \in {o \in Names : /\ DraftExists(<<project_folder, o>>)
                                      /\ Contains(Lower(search_var), Lower(o))}}
       /\ {project_vars[i].name : i \in 1..Len(project_vars)}
             = {projects[i].name : i \in 1..Len(projects)}

\* No two slots of the array hold segments that overlap in time.
NonOverlapping(segments, objs) ==
    \A i, j \in 1..Len(segments) : i # j => Disjoint(objs[segments[i]], objs[segments[j]])

\* The segments pass p re-timed do not overlap each other and end inside its window.
PassKeepsWindow(p) ==
    /\ \A i, j \in 1..Len(p.collected) :
          i # j => Disjoint(p.retimed[p.collected[i]], p.retimed[p.collected[j]])
    /\ \A r \in Range(p.collected) : End(p.retimed[r]) <= p.window_end

\* C10 as stated: if the target track's segments are pairwise non-overlapping as
\* loaded they are pairwise non-overlapping afterwards, a segment that straddles a
\* window's start marker included, and every re-timed segment ends at or before
\* window_end.
C10_NonOverlap ==
    (TargetChosen /\ NonOverlapping(OrigSegments, OrigHeap)) =>
       /\ NonOverlapping(CurSegments, heap)
       /\ \A k \in 1..Len(passes) : PassKeepsWindow(passes[k])

\* seg starts before and ends after the start marker of pass p's window.
Straddles(seg, p) == seg.start < p.window_start /\ End(seg) > p.window_start

\* C10, amended: if the target track's segments are pairwise non-overlapping as
\* loaded, then afterwards two of them overlap only where one straddles the start
\* marker of a window that collected segments (it starts before the marker and ends
\* after it); the re-timed segments of a window do not overlap each other and end
\* at or before window_end.
C10_NonOverlapButStraddlers ==
    (TargetChosen /\ NonOverlapping(OrigSegments, OrigHeap)) =>
       /\ \A i, j \in 1..Len(CurSegments) :
             (i # j /\ ~Disjoint(heap[CurSegments[i]], heap[CurSegments[j]])) =>
                \E k \in 1..Len(passes) :
                   \/ Straddles(heap[CurSegments[i]], passes[k])
                   \/ Straddles(heap[CurSegments[j]], passes[k])
       /\ \A k \in 1..Len(passes) : PassKeepsWindow(passes[k])

C10_Witness ==
    /\ pc = "returned"
    /\ NonOverlapping(OrigSegments, OrigHeap)
    /\ ~NonOverlapping(CurSegments, heap)

====
